---------------------------- MODULE Spec2Model ----------------------------
(***************************************************************************)
(* A model of the fuelstop route planner (src/route_api/views.py and       *)
(* src/route_api/utils.py): the geocoder with its process-wide cache, the  *)
(* router with its haversine fallback, the geometry simplifier, the        *)
(* station catalog with its process-wide cache, the corridor filter and    *)
(* the stop planner, run by request threads that share the two caches.     *)
(*                                                                         *)
(* Representation.                                                         *)
(*   - A text is a sequence of one-character strings, so that strip,       *)
(*     lower, upper and split are computed and not assumed.                *)
(*   - A coordinate is <<lon, lat>> in whole degrees.                      *)
(*   - A distance is a whole number of thousandths of a mile (the code     *)
(*     uses floats; the fixed point keeps ceil and <= exact).              *)
(*   - A price is a whole number of thousandths of a dollar; an average    *)
(*     is the pair [num, den] of the division the code performs.           *)
(*   - Python's None is the record [none |-> TRUE]; a list that may be     *)
(*     None is the record [list |-> ...] when it is not, and the output of *)
(*     a function specification is [value |-> ...] once it is there.       *)
(***************************************************************************)
EXTENDS Integers, Sequences, FiniteSets, TLC

VARIABLES
    pc,                  \* per thread: the place of the thread in calculate_route
    request,             \* per thread: request.data (start_location, end_location)
    which,               \* per thread: the geocode_location call in progress ("start"/"end")
    start_coords,        \* per thread: local of calculate_route
    end_coords,          \* per thread: local of calculate_route
    coords,              \* per thread: local of geocode_location (validated provider answer)
    route_info,          \* per thread: local of calculate_route
    stations,            \* per thread: local of load_fuel_stations / all_fuel_stations
    response,            \* per thread: the Response returned
    trace,               \* per thread: the calls made for the current request, in order
    GEOCODING_CACHE,     \* utils.py:12
    FUEL_STATIONS_CACHE, \* utils.py:13
    API_CALL_COUNTER,    \* views.py:17
    disk,                \* the station dataset in storage
    provider_calls,      \* history: geocoding provider requests issued
    disk_reads,          \* history: reads of the dataset from storage
    cache_assigns,       \* history: assignments to FUEL_STATIONS_CACHE
    resolved,            \* history: per cache key, the coordinates returned by finished calls
    started,             \* history: number of requests received
    args,                \* inputs of the function under check (function specifications)
    result               \* its output

vars == <<pc, request, which, start_coords, end_coords, coords, route_info,
          stations, response, trace, GEOCODING_CACHE, FUEL_STATIONS_CACHE,
          API_CALL_COUNTER, disk, provider_calls, disk_reads, cache_assigns,
          resolved, started, args, result>>

None == [none |-> TRUE]

-----------------------------------------------------------------------------
(* Bounds of the model.                                                    *)

NumThreads == 2
MaxRequests == 3
MaxCoordinates == 300
MaxStations == 12
MaxDistanceSteps == 32

-----------------------------------------------------------------------------
(* Text: str.lower, str.upper, str.strip, str.split(',').                  *)

LowerMap == [A |-> "a", C |-> "c", D |-> "d", E |-> "e", L |-> "l", N |-> "n",
             O |-> "o", T |-> "t", U |-> "u", V |-> "v", X |-> "x"]

UpperMap == [a |-> "A", c |-> "C", d |-> "D", e |-> "E", l |-> "L", n |-> "N",
             o |-> "O", t |-> "T", u |-> "U", v |-> "V", x |-> "X"]

LowerChar(ch) == IF ch \in DOMAIN LowerMap THEN LowerMap[ch] ELSE ch

UpperChar(ch) == IF ch \in DOMAIN UpperMap THEN UpperMap[ch] ELSE ch

Lower(s) == [i \in 1..Len(s) |-> LowerChar(s[i])]

Upper(s) == [i \in 1..Len(s) |-> UpperChar(s[i])]

RECURSIVE LStrip(_)
LStrip(s) == IF s /= <<>> /\ Head(s) = " " THEN LStrip(Tail(s)) ELSE s

RECURSIVE RStrip(_)
RStrip(s) ==
    IF s /= <<>> /\ s[Len(s)] = " " THEN RStrip(SubSeq(s, 1, Len(s) - 1)) ELSE s

Strip(s) == RStrip(LStrip(s))

\* s.split(','): the parts between commas; a text without a comma is one part.
RECURSIVE SplitFrom(_, _, _)
SplitFrom(s, i, cur) ==
    IF i > Len(s) THEN <<cur>>
    ELSE IF s[i] = "," THEN <<cur>> \o SplitFrom(s, i + 1, <<>>)
    ELSE SplitFrom(s, i + 1, Append(cur, s[i]))

SplitComma(s) == SplitFrom(s, 1, <<>>)


\* The text as one string (a dictionary key, a jurisdiction code).
RECURSIVE Join(_)
Join(s) == IF s = <<>> THEN "" ELSE Head(s) \o Join(Tail(s))

-----------------------------------------------------------------------------
(* Geocoder: geocode_location, utils.py:20-68.                             *)

\* utils.py:28  cache_key = location_str.lower().strip()
CacheKey(location_str) == Join(Strip(Lower(location_str)))

\* utils.py:57-60  the two bounding boxes
InUSA(lon, lat) ==
    LET is_contiguous_usa == (-125 <= lon /\ lon <= -66) /\ (24 <= lat /\ lat <= 49)
        is_alaska == (-180 <= lon /\ lon <= -130) /\ (51 <= lat /\ lat <= 71)
    IN  is_contiguous_usa \/ is_alaska

\* What one request to the geocoding provider can bring back: an exception of
\* SESSION.get, an error status, an empty candidate list, or a first candidate.
\* The provider is outside the program: it may answer any of them to any text.
GeocodeCandidates == {<<-118, 34>>, <<-105, 40>>, <<10, 10>>}

GeocodeResponses ==
    {[kind |-> k, lon |-> 0, lat |-> 0] : k \in {"network_error", "http_error", "empty"}}
    \cup {[kind |-> "candidate", lon |-> c[1], lat |-> c[2]] : c \in GeocodeCandidates}

\* utils.py:43-61: whether the provider's answer makes geocode_location raise.
GeocodeRaises(resp) ==
    \/ resp.kind \in {"network_error", "http_error"}        \* SESSION.get, raise_for_status
    \/ resp.kind = "empty"                                  \* if not data: raise
    \/ resp.kind = "candidate" /\ ~InUSA(resp.lon, resp.lat)  \* outside USA boundaries

-----------------------------------------------------------------------------
(* Router: calculate_haversine_distance and get_route, utils.py:71-132.    *)

\* calculate_haversine_distance, in thousandths of a mile, tabulated for the
\* coordinates the geocoder can return (R = 3958.8; the trigonometry is done
\* outside the model, the values are those of the code rounded to 0.001 mile).
Haversine(coord1, coord2) ==
    LET pair == {coord1, coord2}
    IN  CASE coord1 = coord2 -> 0
          [] pair = {<<-118, 34>>, <<-105, 40>>} -> 827275

\* utils.py:113  distance_meters * 0.000621371, in thousandths of a mile
\* (truncated; split so that no product leaves 32 bits).
MetersToMiles(distance_meters) ==
    LET q == distance_meters \div 1000
        r == distance_meters % 1000
    IN  q * 621 + (q * 371 + (r * 621371) \div 1000) \div 1000

\* utils.py:123-132  the haversine fallback
FallbackRoute(start, end) ==
    [distance |-> (Haversine(start, end) * 13) \div 10,
     geometry |-> <<start, end>>]

\* A polyline of n points from start to end, as a provider would send it.
Polyline(start, end, n) ==
    [i \in 1..n |-> IF i = 1 THEN start
                    ELSE IF i = n THEN end
                    ELSE <<start[1] + i, start[2]>>]

\* What one request to the routing provider can bring back.
\* Distances in metres: 500.000 miles and about 1200 miles.
ProviderRoutes(start, end) ==
    {[distance |-> 804673, geometry |-> Polyline(start, end, 2)],
     [distance |-> 1931213, geometry |-> Polyline(start, end, 33)]}

RouteResponses(start, end) ==
    {[kind |-> k, code |-> "", routes |-> <<>>] :
        k \in {"network_error", "timeout", "http_error"}}
    \cup {[kind |-> "body", code |-> c, routes |-> <<>>] : c \in {"Ok", "NoRoute"}}
    \cup {[kind |-> "body", code |-> "Ok", routes |-> <<r>>] :
             r \in ProviderRoutes(start, end)}

\* utils.py:110  the provider answered with a route
RouteOk(resp) == resp.kind = "body" /\ resp.code = "Ok" /\ resp.routes /= <<>>

\* get_route, utils.py:92-132.  An exception inside the try block runs the
\* fallback; a body that is not ('Ok' with routes) leaves the if without a
\* return, and the function ends: Python returns None.
get_route(start, end, resp) ==
    IF resp.kind /= "body" THEN FallbackRoute(start, end)
    ELSE IF resp.code = "Ok" /\ resp.routes /= <<>>
         THEN [distance |-> MetersToMiles(resp.routes[1].distance),
               geometry |-> resp.routes[1].geometry]
         ELSE None

-----------------------------------------------------------------------------
(* Geometry simplifier: simplify_geometry, views.py:39-60.                 *)

\* views.py:54-55  for i in range(step, len(coordinates) - 1, step)
RECURSIVE SimplifyLoop(_, _, _, _)
SimplifyLoop(coordinates, i, step, simplified) ==
    IF i >= Len(coordinates) - 1 THEN simplified
    ELSE SimplifyLoop(coordinates, i + step, step,
                      Append(simplified, coordinates[i + 1]))

simplify_geometry(coordinates, max_points) ==
    IF Len(coordinates) <= max_points THEN coordinates
    ELSE LET step == Len(coordinates) \div (max_points - 2)
         IN  Append(SimplifyLoop(coordinates, step, step, <<coordinates[1]>>),
                    coordinates[Len(coordinates)])

-----------------------------------------------------------------------------
(* Station catalog: load_fuel_stations, utils.py:135-180.                  *)
(* A row of the dataset is [name, state, price, numeric]: numeric is FALSE *)
(* when float(row['Retail Price']) raises ValueError.  Address and city    *)
(* are carried with the name and are not modelled apart.                   *)

\* utils.py:166-176  the rows that parse, in file order
RECURSIVE ParseRows(_)
ParseRows(rows) ==
    IF rows = <<>> THEN <<>>
    ELSE LET row == Head(rows)
         IN  IF row.numeric
             THEN <<[name |-> row.name, state |-> row.state, price |-> row.price]>>
                  \o ParseRows(Tail(rows))
             ELSE ParseRows(Tail(rows))

-----------------------------------------------------------------------------
(* Corridor filter: find_stations_near_route and get_neighboring_states,   *)
(* utils.py:183-275.                                                       *)

neighbors ==
    ("CA" :> <<"NV", "AZ", "OR">>) @@
    ("TX" :> <<"NM", "OK", "AR", "LA">>) @@
    ("FL" :> <<"GA", "AL">>) @@
    ("NY" :> <<"PA", "NJ", "CT", "MA", "VT">>) @@
    ("CO" :> <<"NM", "KS", "NE", "WY", "UT">>) @@
    ("WA" :> <<"OR", "ID">>) @@
    ("IL" :> <<"WI", "IN", "IA", "MO", "KY">>) @@
    ("OH" :> <<"PA", "MI", "IN", "KY", "WV">>) @@
    ("GA" :> <<"FL", "AL", "SC", "NC", "TN">>) @@
    ("NC" :> <<"SC", "GA", "TN", "VA">>) @@
    ("VA" :> <<"NC", "WV", "MD", "DC", "TN", "KY">>) @@
    ("PA" :> <<"NY", "NJ", "DE", "MD", "WV", "OH">>) @@
    ("AZ" :> <<"CA", "NV", "UT", "NM">>) @@
    ("NV" :> <<"CA", "OR", "ID", "UT", "AZ">>) @@
    ("OR" :> <<"WA", "ID", "NV", "CA">>) @@
    ("NM" :> <<"AZ", "CO", "OK", "TX">>) @@
    ("OK" :> <<"TX", "NM", "CO", "KS", "MO", "AR">>) @@
    ("LA" :> <<"TX", "AR", "MS">>) @@
    ("MI" :> <<"OH", "IN", "WI">>) @@
    ("WI" :> <<"MI", "IL", "IA", "MN">>) @@
    ("MN" :> <<"WI", "IA", "SD", "ND">>) @@
    ("MO" :> <<"IA", "IL", "KY", "TN", "AR", "OK", "KS", "NE">>) @@
    ("UT" :> <<"NV", "AZ", "CO", "WY", "ID">>) @@
    ("KS" :> <<"CO", "NE", "MO", "OK">>) @@
    ("NE" :> <<"WY", "SD", "IA", "MO", "KS", "CO">>) @@
    ("IA" :> <<"MN", "WI", "IL", "MO", "NE", "SD">>) @@
    ("TN" :> <<"KY", "VA", "NC", "GA", "AL", "MS", "AR", "MO">>) @@
    ("AL" :> <<"TN", "GA", "FL", "MS">>) @@
    ("MS" :> <<"TN", "AL", "LA", "AR">>) @@
    ("AR" :> <<"MO", "TN", "MS", "LA", "TX", "OK">>) @@
    ("SC" :> <<"NC", "GA">>) @@
    ("KY" :> <<"OH", "WV", "VA", "TN", "MO", "IL", "IN">>) @@
    ("IN" :> <<"MI", "OH", "KY", "IL">>) @@
    ("WV" :> <<"OH", "PA", "MD", "VA", "KY">>)

\* utils.py:275  neighbors.get(state, [])
get_neighboring_states(state) ==
    IF state \in DOMAIN neighbors THEN neighbors[state] ELSE <<>>

Range(seq) == {seq[i] : i \in DOMAIN seq}

\* utils.py:203-210  the code one location text adds to route_states
ExtractStates(location) ==
    IF location = <<>> THEN {}                       \* if not location: continue
    ELSE LET parts == SplitComma(Strip(location))
         IN  IF Len(parts) >= 2
             THEN LET state == Upper(Strip(parts[Len(parts)]))
                  IN  IF Len(state) = 2 THEN {Join(state)} ELSE {}
             ELSE {}

\* utils.py:213-215
ExpandedStates(start_location, end_location) ==
    LET route_states == ExtractStates(start_location) \cup ExtractStates(end_location)
    IN  route_states
        \cup UNION {Range(get_neighboring_states(state)) : state \in route_states}

InStates(states, expanded_states) ==
    SelectSeq(states, LAMBDA s : s.state \in expanded_states)

\* utils.py:218-221 without the fall to utils.py:224 when nothing matches
find_stations_no_fallback(fuel_stations, start_location, end_location) ==
    LET expanded_states == ExpandedStates(start_location, end_location)
    IN  IF expanded_states /= {}
        THEN InStates(fuel_stations, expanded_states)
        ELSE fuel_stations

find_stations_near_route(fuel_stations, start_location, end_location) ==
    LET expanded_states == ExpandedStates(start_location, end_location)
        nearby_stations == InStates(fuel_stations, expanded_states)
    IN  IF expanded_states /= {} /\ nearby_stations /= <<>>
        THEN nearby_stations
        ELSE fuel_stations

-----------------------------------------------------------------------------
(* Stop planner: calculate_route, views.py:132-185.                        *)

VEHICLE_RANGE == 500

FUEL_EFFICIENCY == 10

\* round(x, 2) of a value in thousandths: the nearest hundredth, in
\* thousandths (a tie goes to the even hundredth).
Round2(x) ==
    LET q == x \div 10
        r == x % 10
    IN  IF r < 5 THEN q * 10
        ELSE IF r > 5 THEN (q + 1) * 10
        ELSE IF q % 2 = 0 THEN q * 10 ELSE (q + 1) * 10

\* math.ceil(a / b) for a >= 0, b > 0
Ceil(a, b) == (a + b - 1) \div b

\* views.py:136 without the clamp of views.py:137-138
num_stops_unclamped(total_distance) ==
    Ceil(total_distance, VEHICLE_RANGE * 1000) - 1

\* views.py:136-138 with the whole ranges the distance holds, floor(d / range),
\* in place of ceil(d / range) - 1
num_stops_floor(total_distance) ==
    total_distance \div (VEHICLE_RANGE * 1000)

\* views.py:136-138, total_distance in thousandths of a mile
num_stops_of(total_distance) ==
    LET num_stops == Ceil(total_distance, VEHICLE_RANGE * 1000) - 1
    IN  IF total_distance <= VEHICLE_RANGE * 1000 THEN 0 ELSE num_stops

\* views.py:152  sorted(nearby_stations, key=lambda x: x['price']): Python's
\* sort is stable, modelled as the insertion sort that puts an element after
\* the elements that do not cost more.
InsertByPrice(sorted, s) ==
    LET k == Cardinality({i \in DOMAIN sorted : sorted[i].price <= s.price})
    IN  SubSeq(sorted, 1, k) \o <<s>> \o SubSeq(sorted, k + 1, Len(sorted))

RECURSIVE SortByPrice(_)
SortByPrice(seq) ==
    IF seq = <<>> THEN <<>>
    ELSE InsertByPrice(SortByPrice(SubSeq(seq, 1, Len(seq) - 1)), seq[Len(seq)])

\* views.py:162 with i in place of i - 1
StationIndexFromOne(i, sorted_stations) == i % Len(sorted_stations)

\* views.py:162  station_index = (i - 1) % len(sorted_stations), 0-based
StationIndex(i, sorted_stations) == (i - 1) % Len(sorted_stations)

\* views.py:154-173
FuelStops(num_stops, sorted_stations) ==
    IF num_stops > 0 /\ sorted_stations /= <<>>
    THEN [i \in 1..num_stops |->
            LET station == sorted_stations[StationIndex(i, sorted_stations) + 1]
            IN  [stop_number |-> i,
                 station_name |-> station.name,
                 state |-> station.state,
                 price_per_gallon |-> Round2(station.price),
                 distance_from_start |-> i * VEHICLE_RANGE]]
    ELSE <<>>

RECURSIVE Sum(_)
Sum(seq) == IF seq = <<>> THEN 0 ELSE Head(seq) + Sum(Tail(seq))

\* sorted_stations[:10]
FirstTen(sorted_stations) ==
    SubSeq(sorted_stations, 1, IF Len(sorted_stations) < 10 THEN Len(sorted_stations) ELSE 10)

\* views.py:178-183  avg_price, as the division the code performs
AvgPrice(fuel_stops, sorted_stations) ==
    IF fuel_stops /= <<>>
    THEN [num |-> Sum([i \in DOMAIN fuel_stops |-> fuel_stops[i].price_per_gallon]),
          den |-> Len(fuel_stops)]
    ELSE LET cheapest == FirstTen(sorted_stations)
         IN  [num |-> Sum([i \in DOMAIN cheapest |-> cheapest[i].price]),
              den |-> 10]

\* round(num / den, 2) for a quotient in thousandths: the nearest hundredth,
\* in thousandths (a tie goes to the even hundredth).
RoundQuotient2(num, den) ==
    LET d == den * 10
        q == num \div d
        r == num % d
    IN  IF 2 * r < d THEN q * 10
        ELSE IF 2 * r > d THEN (q + 1) * 10
        ELSE IF q % 2 = 0 THEN q * 10 ELSE (q + 1) * 10

\* views.py:185  round(total_gallons * avg_price, 2), in thousandths of a
\* dollar; the product is taken in two parts so that it stays in 32 bits.
TotalFuelCost(total_distance, avg_price) ==
    LET whole == total_distance \div 1000
        part == total_distance % 1000
    IN  RoundQuotient2(whole * avg_price.num + (part * avg_price.num) \div 1000,
                       FUEL_EFFICIENCY * avg_price.den)

\* views.py:132-185  the plan for a distance and a candidate pool.
StopPlan(total_distance, nearby_stations) ==
    LET num_stops == num_stops_of(total_distance)
        sorted_stations == SortByPrice(nearby_stations)
        fuel_stops == FuelStops(num_stops, sorted_stations)
        avg_price == AvgPrice(fuel_stops, sorted_stations)
    IN  [num_stops |-> num_stops,
         sorted_stations |-> sorted_stations,
         fuel_stops |-> fuel_stops,
         total_gallons |-> [num |-> total_distance, den |-> FUEL_EFFICIENCY],
         avg_price |-> avg_price,
         total_fuel_cost |-> TotalFuelCost(total_distance, avg_price)]

-----------------------------------------------------------------------------
(* The requests.  A field of request.data is [kind, text]: kind "missing"  *)
(* (the key is absent, .get gives None), "str" (text may be empty) or      *)
(* "other" (a value that is not a string and is not falsy, such as 5).     *)

Threads == 1..NumThreads

Missing == [kind |-> "missing", text |-> <<>>]

NotText == [kind |-> "other", text |-> <<>>]

Text(t) == [kind |-> "str", text |-> t]

LA == <<"L", "A", ",", " ", "C", "A">>

la == <<" ", "l", "a", ",", " ", "c", "a", " ">>

DEN == <<"D", "E", "N", ",", " ", "C", "O">>

RequestTexts == {LA, la, DEN}

RequestInputs ==
    {[start_location |-> Text(p[1]), end_location |-> Text(p[2])] :
        p \in {<<LA, DEN>>, <<la, DEN>>}}
    \cup {[start_location |-> Missing, end_location |-> Text(DEN)],
          [start_location |-> Text(LA), end_location |-> Text(<<>>)],
          [start_location |-> NotText, end_location |-> Text(DEN)],
          [start_location |-> Text(LA), end_location |-> NotText]}

CacheKeys == {CacheKey(t) : t \in RequestTexts}

\* The dataset in storage: absent, a header without rows, or rows of which one
\* has a price that is not a number.
DiskRows ==
    <<[name |-> "Pilot", state |-> "CO", price |-> 3259, numeric |-> TRUE],
      [name |-> "Loves", state |-> "NV", price |-> 2999, numeric |-> TRUE],
      [name |-> "Shell", state |-> "TX", price |-> 0, numeric |-> FALSE],
      [name |-> "Flying", state |-> "ME", price |-> 2876, numeric |-> TRUE]>>

DiskChoices ==
    {[found |-> FALSE, rows |-> <<>>],
     [found |-> TRUE, rows |-> <<>>],
     [found |-> TRUE, rows |-> DiskRows]}

\* not x, for a field of request.data
Falsy(v) == v.kind = "missing" \/ (v.kind = "str" /\ v.text = <<>>)

\* isinstance(x, str)
IsStr(v) == v.kind = "str"

ErrorResponse(status, error) ==
    [status |-> status, error |-> error, route |-> None,
     fuel_stops |-> <<>>, fuel_summary |-> None]

NoResponse == ErrorResponse(0, "")

-----------------------------------------------------------------------------
(* The request handler calculate_route, views.py:63-219, run by threads    *)
(* that share the two caches: one action per stretch of code between two   *)
(* places where another thread's step can make a difference (an outbound   *)
(* call, a read or a write of a cache).                                    *)

\* The process after import: no request in progress, both caches empty.
Booted ==
    /\ pc = [t \in Threads |-> "idle"]
    /\ request = [t \in Threads |-> None]
    /\ which = [t \in Threads |-> "start"]
    /\ start_coords = [t \in Threads |-> None]
    /\ end_coords = [t \in Threads |-> None]
    /\ coords = [t \in Threads |-> None]
    /\ route_info = [t \in Threads |-> None]
    /\ stations = [t \in Threads |-> None]
    /\ response = [t \in Threads |-> NoResponse]
    /\ trace = [t \in Threads |-> <<>>]
    /\ GEOCODING_CACHE = [k \in {} |-> None]
    /\ FUEL_STATIONS_CACHE = None
    /\ API_CALL_COUNTER = [geocoding |-> 0, routing |-> 0]
    /\ provider_calls = 0
    /\ disk_reads = 0
    /\ cache_assigns = 0
    /\ resolved = [k \in CacheKeys |-> {}]
    /\ started = 0

Init ==
    /\ Booted
    /\ disk \in DiskChoices
    /\ args = None
    /\ result = None

\* The location text of the geocode_location call thread t is in.
Location(t) ==
    IF which[t] = "start" THEN request[t].start_location.text
    ELSE request[t].end_location.text

\* The handler returns a Response: the thread has its answer.
Respond(t, r) ==
    /\ response' = [response EXCEPT ![t] = r]
    /\ pc' = [pc EXCEPT ![t] = "done"]

\* views.py:81-100  a request arrives at an idle thread and is validated.
Receive(t) ==
    /\ pc[t] = "idle"
    /\ started < MaxRequests
    /\ started' = started + 1
    /\ \E data \in RequestInputs :
          /\ request' = [request EXCEPT ![t] = data]
          /\ IF Falsy(data.start_location) \/ Falsy(data.end_location)
             THEN Respond(t, ErrorResponse(400, "required"))
             ELSE IF ~IsStr(data.start_location) \/ ~IsStr(data.end_location)
             THEN Respond(t, ErrorResponse(400, "not_text"))
             ELSE /\ pc' = [pc EXCEPT ![t] = "geocode"]
                  /\ UNCHANGED response
    /\ UNCHANGED <<which, start_coords, end_coords, coords, route_info, stations,
                   trace, GEOCODING_CACHE, FUEL_STATIONS_CACHE, API_CALL_COUNTER,
                   disk, provider_calls, disk_reads, cache_assigns, resolved,
                   args, result>>

\* geocode_location returns value v to calculate_route (views.py:105, 115):
\* the start goes on to the end, the end to the route call.
GeocodeReturn(t, v) ==
    /\ resolved' = [resolved EXCEPT ![CacheKey(Location(t))] = @ \cup {v}]
    /\ IF which[t] = "start"
       THEN /\ start_coords' = [start_coords EXCEPT ![t] = v]
            /\ which' = [which EXCEPT ![t] = "end"]
            /\ pc' = [pc EXCEPT ![t] = "geocode"]
            /\ UNCHANGED end_coords
       ELSE /\ end_coords' = [end_coords EXCEPT ![t] = v]
            /\ pc' = [pc EXCEPT ![t] = "route"]
            /\ UNCHANGED <<start_coords, which>>

\* views.py:104-105, 114-115 and utils.py:28-31  the call and its cache check.
GeocodeCheck(t) ==
    /\ pc[t] = "geocode"
    /\ LET cache_key == CacheKey(Location(t))
       IN  IF cache_key \in DOMAIN GEOCODING_CACHE
           THEN GeocodeReturn(t, GEOCODING_CACHE[cache_key])
           ELSE /\ pc' = [pc EXCEPT ![t] = "geocode_request"]
                /\ UNCHANGED <<resolved, start_coords, end_coords, which>>
    /\ API_CALL_COUNTER' = [API_CALL_COUNTER EXCEPT !.geocoding = @ + 1]
    /\ trace' = [trace EXCEPT ![t] = Append(@, <<"geocode", which[t]>>)]
    /\ UNCHANGED <<request, coords, route_info, stations, response,
                   GEOCODING_CACHE, FUEL_STATIONS_CACHE, disk, provider_calls,
                   disk_reads, cache_assigns, started, args, result>>

\* utils.py:33-61 with the except branches of views.py:106-111 left out: a
\* start location that cannot be geocoded is noted and the handler goes on to
\* the end location.
GeocodeRequestContinues(t) ==
    /\ pc[t] = "geocode_request"
    /\ provider_calls' = provider_calls + 1
    /\ \E resp \in GeocodeResponses :
          IF GeocodeRaises(resp)
          THEN /\ response' = [response EXCEPT ![t] =
                                  ErrorResponse(400, <<"geocode", which[t]>>)]
               /\ pc' = [pc EXCEPT ![t] = IF which[t] = "start" THEN "geocode" ELSE "done"]
               /\ which' = [which EXCEPT ![t] = "end"]
               /\ UNCHANGED coords
          ELSE /\ coords' = [coords EXCEPT ![t] = <<resp.lon, resp.lat>>]
               /\ pc' = [pc EXCEPT ![t] = "geocode_store"]
               /\ UNCHANGED <<response, which>>
    /\ UNCHANGED <<request, start_coords, end_coords, route_info, stations,
                   trace, GEOCODING_CACHE, FUEL_STATIONS_CACHE, API_CALL_COUNTER,
                   disk, disk_reads, cache_assigns, resolved, started, args, result>>

\* utils.py:33-61  the provider request and the validation of its answer; an
\* exception leaves calculate_route by views.py:106-111 or 116-121.
GeocodeRequest(t) ==
    /\ pc[t] = "geocode_request"
    /\ provider_calls' = provider_calls + 1
    /\ \E resp \in GeocodeResponses :
          IF GeocodeRaises(resp)
          THEN /\ Respond(t, ErrorResponse(400, <<"geocode", which[t]>>))
               /\ UNCHANGED coords
          ELSE /\ coords' = [coords EXCEPT ![t] = <<resp.lon, resp.lat>>]
               /\ pc' = [pc EXCEPT ![t] = "geocode_store"]
               /\ UNCHANGED response
    /\ UNCHANGED <<request, which, start_coords, end_coords, route_info, stations,
                   trace, GEOCODING_CACHE, FUEL_STATIONS_CACHE, API_CALL_COUNTER,
                   disk, disk_reads, cache_assigns, resolved, started, args, result>>

\* utils.py:64-68  GEOCODING_CACHE[cache_key] = coords; return coords
GeocodeStore(t) ==
    /\ pc[t] = "geocode_store"
    /\ GEOCODING_CACHE' = (CacheKey(Location(t)) :> coords[t]) @@ GEOCODING_CACHE
    /\ GeocodeReturn(t, coords[t])
    /\ coords' = [coords EXCEPT ![t] = None]
    /\ UNCHANGED <<request, route_info, stations, response, trace,
                   FUEL_STATIONS_CACHE, API_CALL_COUNTER, disk, provider_calls,
                   disk_reads, cache_assigns, started, args, result>>

\* views.py:124-138 and utils.py:92-132  the route call.  When get_route
\* returns None, route_info['distance'] raises TypeError, which the handler's
\* outer except (views.py:212-219) turns into a 500 response.
Route(t) ==
    /\ pc[t] = "route"
    /\ API_CALL_COUNTER' = [API_CALL_COUNTER EXCEPT !.routing = @ + 1]
    /\ \E resp \in RouteResponses(start_coords[t], end_coords[t]) :
          LET info == get_route(start_coords[t], end_coords[t], resp)
          IN  /\ route_info' = [route_info EXCEPT ![t] = info]
              /\ trace' = [trace EXCEPT ![t] =
                              Append(@, <<"route", IF RouteOk(resp) THEN "ok" ELSE "failed">>)]
              /\ IF info = None
                 THEN Respond(t, ErrorResponse(500, "failed"))
                 ELSE /\ pc' = [pc EXCEPT ![t] = "load"]
                      /\ UNCHANGED response
    /\ UNCHANGED <<request, which, start_coords, end_coords, coords, stations,
                   GEOCODING_CACHE, FUEL_STATIONS_CACHE, disk, provider_calls,
                   disk_reads, cache_assigns, resolved, started, args, result>>

MAX_POINTS == 30

\* views.py:196-210  the 200 response
RouteResponse(start_location, end_location, info, plan) ==
    [status |-> 200,
     error |-> "",
     route |-> [start |-> start_location,
                end |-> end_location,
                distance_miles |-> Round2(info.distance),
                geometry |-> simplify_geometry(info.geometry, MAX_POINTS)],
     fuel_stops |-> plan.fuel_stops,
     fuel_summary |->
        [total_gallons_needed |->
            RoundQuotient2(plan.total_gallons.num, plan.total_gallons.den),
         average_price_per_gallon |->
            RoundQuotient2(plan.avg_price.num, plan.avg_price.den),
         total_fuel_cost |-> plan.total_fuel_cost]]

\* load_fuel_stations returns the list to calculate_route, which goes on to
\* the end without another shared access: views.py:141-210, the corridor
\* filter, the stop plan and the response.
LoadReturn(t, all_fuel_stations) ==
    /\ stations' = [stations EXCEPT ![t] = all_fuel_stations]
    /\ LET start_location == request[t].start_location.text
           end_location == request[t].end_location.text
           nearby_stations ==
               find_stations_near_route(all_fuel_stations, start_location, end_location)
           plan == StopPlan(route_info[t].distance, nearby_stations)
       IN  Respond(t, RouteResponse(start_location, end_location, route_info[t], plan))

\* views.py:141 and utils.py:143-144  the call and its cache check.
LoadCheck(t) ==
    /\ pc[t] = "load"
    /\ IF FUEL_STATIONS_CACHE /= None
       THEN LoadReturn(t, FUEL_STATIONS_CACHE.list)
       ELSE /\ pc' = [pc EXCEPT ![t] = "load_read"]
            /\ UNCHANGED <<stations, response>>
    /\ UNCHANGED <<request, which, start_coords, end_coords, coords, route_info,
                   trace, GEOCODING_CACHE, FUEL_STATIONS_CACHE, API_CALL_COUNTER,
                   disk, provider_calls, disk_reads, cache_assigns, resolved,
                   started, args, result>>

\* utils.py:146-176  the dataset is looked for and read; FileNotFoundError
\* leaves the handler by its outer except.
LoadRead(t) ==
    /\ pc[t] = "load_read"
    /\ IF ~disk.found
       THEN /\ Respond(t, ErrorResponse(500, "failed"))
            /\ UNCHANGED <<stations, disk_reads>>
       ELSE /\ stations' = [stations EXCEPT ![t] = ParseRows(disk.rows)]
            /\ disk_reads' = disk_reads + 1
            /\ pc' = [pc EXCEPT ![t] = "load_assign"]
            /\ UNCHANGED response
    /\ UNCHANGED <<request, which, start_coords, end_coords, coords, route_info,
                   trace, GEOCODING_CACHE, FUEL_STATIONS_CACHE, API_CALL_COUNTER,
                   disk, provider_calls, cache_assigns, resolved, started,
                   args, result>>

\* utils.py:179-180  FUEL_STATIONS_CACHE = stations; return stations
LoadAssign(t) ==
    /\ pc[t] = "load_assign"
    /\ FUEL_STATIONS_CACHE' = [list |-> stations[t]]
    /\ cache_assigns' = cache_assigns + 1
    /\ LoadReturn(t, stations[t])
    /\ UNCHANGED <<request, which, start_coords, end_coords, coords, route_info,
                   trace, GEOCODING_CACHE, API_CALL_COUNTER, disk, provider_calls,
                   disk_reads, resolved, started, args, result>>

\* The response is sent and the request's locals are gone; the thread is free
\* for the next request.
Finish(t) ==
    /\ pc[t] = "done"
    /\ pc' = [pc EXCEPT ![t] = "idle"]
    /\ request' = [request EXCEPT ![t] = None]
    /\ which' = [which EXCEPT ![t] = "start"]
    /\ start_coords' = [start_coords EXCEPT ![t] = None]
    /\ end_coords' = [end_coords EXCEPT ![t] = None]
    /\ coords' = [coords EXCEPT ![t] = None]
    /\ route_info' = [route_info EXCEPT ![t] = None]
    /\ stations' = [stations EXCEPT ![t] = None]
    /\ response' = [response EXCEPT ![t] = NoResponse]
    /\ trace' = [trace EXCEPT ![t] = <<>>]
    /\ UNCHANGED <<GEOCODING_CACHE, FUEL_STATIONS_CACHE, API_CALL_COUNTER, disk,
                   provider_calls, disk_reads, cache_assigns, resolved, started,
                   args, result>>

Step(t) ==
    \/ Receive(t)
    \/ GeocodeCheck(t)
    \/ GeocodeRequest(t)
    \/ GeocodeStore(t)
    \/ Route(t)
    \/ LoadCheck(t)
    \/ LoadRead(t)
    \/ LoadAssign(t)
    \/ Finish(t)

Next == \E t \in Threads : Step(t)

Spec == Init /\ [][Next]_vars

-----------------------------------------------------------------------------
(* Function specifications: the inputs of one function are drawn in the    *)
(* initial state and one action applies it.  The process itself is at      *)
(* rest.                                                                   *)

process_vars == <<pc, request, which, start_coords, end_coords, coords, route_info,
                  stations, response, trace, GEOCODING_CACHE, FUEL_STATIONS_CACHE,
                  API_CALL_COUNTER, disk, provider_calls, disk_reads,
                  cache_assigns, resolved, started>>

AtRest == Booted /\ disk = [found |-> FALSE, rows |-> <<>>]

\* ---- simplify_geometry -------------------------------------------------

\* n distinct points, in order
Points(n) == [i \in 1..n |-> <<i, 0>>]

InitSimplify ==
    /\ AtRest
    /\ args \in {[coordinates |-> Points(n), max_points |-> m] :
                    n \in 0..MaxCoordinates, m \in 3..(MAX_POINTS + 2)}
    /\ result = None

Simplify ==
    /\ result = None
    /\ result' = [value |-> simplify_geometry(args.coordinates, args.max_points)]
    /\ UNCHANGED <<process_vars, args>>

SpecSimplify == InitSimplify /\ [][Simplify]_vars

\* ---- find_stations_near_route ------------------------------------------

CorridorTexts ==
    {LA, la, DEN,
     <<>>,                                          \* ""
     <<"D", "E", "N">>,                             \* "DEN"
     <<"X", ",", "U", "S", "A">>,                   \* "X,USA"
     <<"a", ",", "b", ",", " ", "t", "x", " ">>,    \* "a,b, tx "
     <<"L", "A", ",", "X", "X">>,                   \* "LA,XX"
     <<"L", "A", ",">>}                             \* "LA,"

CorridorStations ==
    {<<>>,
     ParseRows(DiskRows),
     <<[name |-> "Irving", state |-> "ME", price |-> 3101]>>,
     <<[name |-> "Petro", state |-> "OK", price |-> 3012],
       [name |-> "Kum", state |-> "co", price |-> 2954],
       [name |-> "TA", state |-> "AZ", price |-> 3333],
       [name |-> "Sapp", state |-> "OK", price |-> 3012]>>}

InitCorridor ==
    /\ AtRest
    /\ args \in {[fuel_stations |-> fs, start_location |-> a, end_location |-> b] :
                    fs \in CorridorStations, a \in CorridorTexts, b \in CorridorTexts}
    /\ result = None

Corridor ==
    /\ result = None
    /\ result' = [value |-> find_stations_near_route(args.fuel_stations,
                                                     args.start_location,
                                                     args.end_location)]
    /\ UNCHANGED <<process_vars, args>>

SpecCorridor == InitCorridor /\ [][Corridor]_vars

\* ---- the stop planner ---------------------------------------------------

StationNames ==
    <<"S01", "S02", "S03", "S04", "S05", "S06", "S07", "S08",
      "S09", "S10", "S11", "S12", "S13", "S14", "S15", "S16">>

StationPrices ==
    <<3259, 2999, 3259, 3101, 2999, 3478, 3012, 3259,
      2876, 3333, 3101, 3599, 2954, 3187, 3259, 3044>>

StationAt(i) ==
    [name |-> StationNames[((i - 1) % Len(StationNames)) + 1],
     state |-> "TX",
     price |-> StationPrices[((i - 1) % Len(StationPrices)) + 1]]

\* A pool of n stations, from the k-th of the table on.
Pool(n, k) == [i \in 1..n |-> StationAt(i + k - 1)]

\* Every 50 miles up to the bound, and the thousandth of a mile on each side.
PlanDistances ==
    {d \in {k * 50000 + e : k \in 0..MaxDistanceSteps, e \in {-1, 0, 1}} : d >= 0}

InitPlan ==
    /\ AtRest
    /\ args \in {[total_distance |-> d, nearby_stations |-> Pool(n, k)] :
                    d \in PlanDistances, n \in 0..MaxStations, k \in {1, 4}}
    /\ result = None

PlanStops ==
    /\ result = None
    /\ result' = [value |-> StopPlan(args.total_distance, args.nearby_stations)]
    /\ UNCHANGED <<process_vars, args>>

SpecPlan == InitPlan /\ [][PlanStops]_vars

-----------------------------------------------------------------------------
(* The claims.                                                             *)

Last(seq) == seq[Len(seq)]

\* The route call of thread t's request has returned.
RouteCalled(t) == trace[t] /= <<>> /\ Last(trace[t])[1] = "route"

\* C1: get_route never fails outward.  Whatever the provider does, the route
\* call gives calculate_route a RouteInfo (never no value); when the provider
\* did not answer with a route it is the fallback, 1.3 x haversine and the
\* polyline [start, end]; and no error of the route call reaches the
\* handler: after the route call the only server error is the dataset's.
C1_RouteNeverFailsOutward ==
    \A t \in Threads :
        RouteCalled(t) =>
            /\ route_info[t] /= None
            /\ Last(trace[t])[2] = "failed" =>
                  route_info[t] = FallbackRoute(start_coords[t], end_coords[t])
            /\ (pc[t] = "done" /\ response[t].status = 500) => ~disk.found

\* The indices of seq, counted from 1, at which the elements of sub are found
\* in order: sub is made of elements of seq in their original order.
RECURSIVE IsSubsequence(_, _)
IsSubsequence(sub, seq) ==
    IF sub = <<>> THEN TRUE
    ELSE IF seq = <<>> THEN FALSE
    ELSE IF Head(sub) = Head(seq) THEN IsSubsequence(Tail(sub), Tail(seq))
    ELSE IsSubsequence(sub, Tail(seq))

\* C2: for every point sequence and every max_points >= 3, the simplified
\* sequence has at most max_points points, begins with the first point and
\* ends with the last point of the input, and keeps the points in their
\* original order; 300 points with max_points = 30 give at most 30 points.
C2_SimplifyBounded ==
    result /= None =>
        /\ Len(result.value) <= args.max_points
        /\ IsSubsequence(result.value, args.coordinates)
        /\ args.coordinates /= <<>> =>
              /\ result.value[1] = args.coordinates[1]
              /\ Last(result.value) = Last(args.coordinates)

\* The candidate pool of thread t's request (views.py:144-149).
CandidatePool(t) ==
    find_stations_near_route(stations[t], request[t].start_location.text,
                             request[t].end_location.text)

\* C3: a request that needs at least one stop and has an empty candidate
\* pool ends in a server error; it never ends in a 200 response with an
\* empty stop list and a fuel summary.
C3_NoStationsIsServerError ==
    \A t \in Threads :
        (/\ pc[t] = "done"
         /\ response[t].status = 200
         /\ num_stops_of(route_info[t].distance) > 0)
        => CandidatePool(t) /= <<>>

\* The k cheapest prices of a pool: the sum of the k smallest, counted with
\* their multiplicity.
RECURSIVE SumCheapest(_, _)
SumCheapest(prices, k) ==
    IF k = 0 \/ prices = <<>> THEN 0
    ELSE LET m == CHOOSE i \in DOMAIN prices : \A j \in DOMAIN prices : prices[i] <= prices[j]
         IN  prices[m]
             + SumCheapest([j \in 1..(Len(prices) - 1) |->
                               IF j < m THEN prices[j] ELSE prices[j + 1]], k - 1)

Min(a, b) == IF a < b THEN a ELSE b

\* C4: when no stop is needed, the average price is the mean of the k
\* cheapest stations of the pool, k = min(10, size of the pool): their sum
\* divided by k.
C4_MeanOfCheapest ==
    (result /= None /\ result.value.num_stops = 0) =>
        LET pool == args.nearby_stations
            k == Min(10, Len(pool))
            sum == SumCheapest([i \in DOMAIN pool |-> pool[i].price], k)
        IN  k > 0 => result.value.avg_price.num * k = sum * result.value.avg_price.den

\* C5: the number of stops is 0 when the distance is at most the range, and
\* ceil(d / range) - 1 otherwise, that is the n with n * range < d <=
\* (n + 1) * range; it is never negative; 450 miles and 500 miles give 0
\* stops and 1200 miles give 2.
C5_StopCount ==
    result /= None =>
        LET d == args.total_distance
            n == result.value.num_stops
        IN  /\ n >= 0
            /\ d <= 500000 => n = 0
            /\ d > 500000 => (n * 500000 < d /\ d <= (n + 1) * 500000)
            /\ d = 450000 => n = 0
            /\ d = 500000 => n = 0
            /\ d = 1200000 => n = 2

C5_Witness ==
    result /= None /\ args.total_distance = 1200000 /\ result.value.num_stops = 2

\* sorted is pool sorted by ascending price, stations of one price in the
\* order they have in pool (the names of a pool are distinct).
IsStableSortOf(sorted, pool) ==
    LET at(s) == CHOOSE i \in DOMAIN pool : pool[i] = s
    IN  /\ Len(sorted) = Len(pool)
        /\ Range(sorted) = Range(pool)
        /\ \A i, j \in DOMAIN sorted :
              i < j => \/ sorted[i].price < sorted[j].price
                       \/ /\ sorted[i].price = sorted[j].price
                          /\ at(sorted[i]) < at(sorted[j])

\* C6: with a pool that is not empty and n stops needed, the stop list has
\* n entries numbered 1..n, the i-th at i * 500 miles from the start and at
\* the station sorted[(i - 1) mod len(sorted)] of the pool stably sorted by
\* price; one station and three stops give that station at 500, 1000, 1500.
C6_CyclicStops ==
    (result /= None /\ args.nearby_stations /= <<>>) =>
        LET sorted == result.value.sorted_stations
            stops == result.value.fuel_stops
        IN  /\ IsStableSortOf(sorted, args.nearby_stations)
            /\ Len(stops) = result.value.num_stops
            /\ \A i \in DOMAIN stops :
                  LET station == sorted[((i - 1) % Len(sorted)) + 1]
                  IN  /\ stops[i].stop_number = i
                      /\ stops[i].distance_from_start = i * 500
                      /\ stops[i].station_name = station.name
                      /\ stops[i].state = station.state
            /\ (Len(args.nearby_stations) = 1 /\ result.value.num_stops = 3) =>
                  /\ \A i \in 1..3 : stops[i].station_name = args.nearby_stations[1].name
                  /\ <<stops[1].distance_from_start, stops[2].distance_from_start,
                       stops[3].distance_from_start>> = <<500, 1000, 1500>>

C6_Witness ==
    /\ result /= None
    /\ Len(args.nearby_stations) = 1
    /\ result.value.num_stops = 3
    /\ Len(result.value.fuel_stops) = 3

\* The code each text of CorridorTexts carries: the token after the last
\* comma, trimmed and uppercased, when the text has a comma and the token has
\* two characters.
ExpectedCodes(text) ==
    CASE text \in {LA, la} -> {"CA"}
      [] text = DEN -> {"CO"}
      [] text = <<"a", ",", "b", ",", " ", "t", "x", " ">> -> {"TX"}
      [] text = <<"L", "A", ",", "X", "X">> -> {"XX"}
      [] OTHER -> {}

\* The target set of two texts: their codes and the codes one hop away in the
\* static table.
TargetStates(a, b) ==
    LET codes == ExpectedCodes(a) \cup ExpectedCodes(b)
    IN  codes \cup {n \in UNION {Range(neighbors[c]) : c \in DOMAIN neighbors} :
                       \E c \in codes \cap DOMAIN neighbors : n \in Range(neighbors[c])}

\* C7: the corridor filter returns exactly the stations whose state is in the
\* target set, in their order, when there is one, and the whole input list
\* when there is none (no code extracted, or no station of those states); a
\* list that is not empty never comes back empty.  "LA, CA" to "DEN, CO"
\* targets CA, CO and their eight neighbours.
C7_CorridorFilter ==
    result /= None =>
        LET fs == args.fuel_stations
            target == TargetStates(args.start_location, args.end_location)
            matching == {i \in DOMAIN fs : fs[i].state \in target}
            nth(j) == CHOOSE i \in matching : Cardinality({m \in matching : m < i}) = j - 1
        IN  /\ matching /= {} =>
                  /\ Len(result.value) = Cardinality(matching)
                  /\ \A j \in DOMAIN result.value : result.value[j] = fs[nth(j)]
            /\ matching = {} => result.value = fs
            /\ fs /= <<>> => result.value /= <<>>
            /\ (args.start_location = LA /\ args.end_location = DEN) =>
                  target = {"CA", "CO", "NV", "AZ", "OR", "NM", "KS", "NE", "WY", "UT"}

\* Codes are extracted, the list is not empty and none of its stations is in
\* the target set: the whole list comes back.
C7_Witness ==
    /\ result /= None
    /\ args.fuel_stations /= <<>>
    /\ TargetStates(args.start_location, args.end_location) /= {}
    /\ \A i \in DOMAIN args.fuel_stations :
          args.fuel_stations[i].state
              \notin TargetStates(args.start_location, args.end_location)
    /\ result.value = args.fuel_stations

\* The step in which thread t's geocode_location call begins.
GeocodeBegins(t) == pc[t] = "geocode" /\ trace'[t] /= trace[t]

\* C8: once a geocode_location call for a key has succeeded, every call for
\* that key that begins later returns the coordinate that call returned and
\* sends no provider request; the count of provider requests grows only in
\* calls that missed the cache.
C8_CacheIdempotent ==
    [][/\ \A t \in Threads :
             (GeocodeBegins(t) /\ resolved[CacheKey(Location(t))] /= {}) =>
                 /\ pc'[t] /= "geocode_request"
                 /\ provider_calls' = provider_calls
                 /\ Cardinality(resolved[CacheKey(Location(t))]) = 1
                 /\ resolved'[CacheKey(Location(t))] = resolved[CacheKey(Location(t))]
       /\ provider_calls' /= provider_calls =>
             \E t \in Threads : pc[t] = "geocode_request"]_vars

\* C9: the station cache is populated once in the life of the process: under
\* every interleaving the dataset is read from storage at most once and
\* FUEL_STATIONS_CACHE is assigned at most once.
C9_LoadedOnce == disk_reads <= 1 /\ cache_assigns <= 1

\* C10: a geocoding cache entry, once created, is never overwritten with
\* another coordinate, under every interleaving and whatever the provider
\* answers: the entry stays the one the first successful resolution stored.
C10_EntryImmutable ==
    [][\A k \in DOMAIN GEOCODING_CACHE :
          /\ k \in DOMAIN GEOCODING_CACHE'
          /\ GEOCODING_CACHE'[k] = GEOCODING_CACHE[k]]_vars

\* The external steps of one request, in the order the handler takes them.
StepOrder == <<"geocode_start", "geocode_end", "route">>

\* The kind of an entry of a request's trace.
StepKind(e) == IF e[1] = "route" THEN "route" ELSE "geocode_" \o e[2]

\* The request of thread t does not pass the input validation.
Rejected(t) ==
    /\ request[t] /= None
    /\ \/ Falsy(request[t].start_location) \/ Falsy(request[t].end_location)
       \/ ~IsStr(request[t].start_location) \/ ~IsStr(request[t].end_location)

\* C11: within one request the external steps occur only in the order
\* geocode(start), geocode(end), route, each one only after every earlier
\* one succeeded: the steps taken so far are a prefix of that order, the end
\* geocode is called only with the start coordinate in hand and the route
\* call only with both, a request the input validation rejects makes no
\* call, and a request answered 400 made no route call.
C11_StepOrder ==
    \A t \in Threads :
        /\ Len(trace[t]) <= Len(StepOrder)
        /\ \A i \in DOMAIN trace[t] : StepKind(trace[t][i]) = StepOrder[i]
        /\ Len(trace[t]) >= 2 => start_coords[t] /= None
        /\ Len(trace[t]) >= 3 => (start_coords[t] /= None /\ end_coords[t] /= None)
        /\ Rejected(t) => (trace[t] = <<>> /\ response[t].status = 400)
        /\ (start_coords[t] = None /\ response[t].status = 400) => Len(trace[t]) <= 1
        /\ (end_coords[t] = None /\ response[t].status = 400) => Len(trace[t]) <= 2
        /\ response[t].status = 400 => ~RouteCalled(t)

\* One request reached its route call while another was stopped by its end
\* geocode failing.
C11_Witness ==
    \E t, u \in Threads :
        /\ Len(trace[t]) = 3
        /\ response[u].status = 400
        /\ Len(trace[u]) = 2
        /\ start_coords[u] /= None
        /\ end_coords[u] = None

\* C12: with a pool that is not empty, the planned stops split the trip of
\* d miles into legs none of which exceeds the range R = 500: every stop lies
\* strictly before d, the first stop is at R, consecutive stops are exactly
\* R apart, and the final leg d - n * R, n the number of stops, is at most R.
\* Distances of the arguments are in thousandths of a mile.
C12_LegsWithinRange ==
    (result /= None /\ args.nearby_stations /= <<>>) =>
        LET d == args.total_distance
            stops == result.value.fuel_stops
            n == Len(stops)
            R == VEHICLE_RANGE
        IN  /\ n = result.value.num_stops
            /\ \A i \in DOMAIN stops : stops[i].distance_from_start * 1000 < d
            /\ n >= 1 => stops[1].distance_from_start = R
            /\ \A i \in 1..(n - 1) :
                  stops[i + 1].distance_from_start - stops[i].distance_from_start = R
            /\ d - n * R * 1000 <= R * 1000

\* A trip of exactly three ranges: two stops and a final leg of exactly R.
C12_Witness ==
    /\ result /= None
    /\ args.nearby_stations /= <<>>
    /\ args.total_distance = 3 * VEHICLE_RANGE * 1000
    /\ Len(result.value.fuel_stops) = 2
    /\ result.value.fuel_stops[2].distance_from_start = 2 * VEHICLE_RANGE

=============================================================================
